---- MODULE Spec2Model ----
(***************************************************************************)
(* Keyword-spotting search of src/main.py: parse_ctm, parse_queries,       *)
(* perform_kws_search, save_hits_to_ctm, save_hits_to_xml and main.        *)
(*                                                                         *)
(* Numbers.  Every decimal of the reference file is kept as an exact       *)
(* integer count of thousandths (0.3 s is 300, confidence 0.9 is 900), and *)
(* a mean is kept as the exact fraction sum/count.  IEEE-754 rounding of   *)
(* the Python floats is not part of the model.                             *)
(***************************************************************************)
EXTENDS Integers, Sequences, FiniteSets, TLC

VARIABLES
    ctm_file,     \* lib/ctms/reference.ctm: a sequence of lines, each already split in fields
    query_file,   \* lib/kws/queries.xml: well-formedness and the kw elements
    pc,           \* position of main()
    error,        \* the exception that ended the run, and the function that raised it
    index_df,     \* main's index_df
    queries_df,   \* main's queries_df
    qi,           \* perform_kws_search: position (1-based) of the query of the outer loop
    hits,         \* perform_kws_search: its local list hits
    win,          \* history: win[k] = <<query position, start offset i>> of hits[k]
    hits_df,      \* main's hits_df
    out_ctm,      \* output/reference.ctm
    out_xml       \* output/reference.xml

vars == <<ctm_file, query_file, pc, error, index_df, queries_df, qi, hits, win,
          hits_df, out_ctm, out_xml>>

-----------------------------------------------------------------------------
(* Bounds of the model *)

MaxLines == 3
MaxQueries == 2

-----------------------------------------------------------------------------
(* Inputs *)

\* float(text) for the numeric texts of the inputs, in thousandths; a text
\* outside the table is one float() rejects with ValueError.
FloatTable ==
    ("0.0" :> 0) @@ ("0.1" :> 100) @@ ("0.104" :> 104) @@ ("0.2" :> 200) @@
    ("0.3" :> 300) @@ ("0.8" :> 800) @@ ("0.9" :> 900) @@ ("1.0" :> 1000)

IsFloat(text) == text \in DOMAIN FloatTable

\* The lines a reference file is made of: three records (the second and the
\* third start exactly 0.5 s apart and lie in different files, the third has a
\* seventh field), a line of three fields, and a line whose duration is no number.
InputLines ==
    { <<"f1", "1", "0.0", "0.2", "go", "0.9">>,
      <<"f1", "1", "0.3", "0.2", "home", "0.8">>,
      <<"f2", "2", "0.8", "0.104", "home", "1.0", "extra">>,
      <<"f1", "1", "0.0">>,
      <<"f1", "1", "0.3", "x", "home", "0.8">> }

\* The kwtext texts, as sequences of chunks: a chunk is a run of whitespace
\* (" ") or a word.
KwTexts ==
    { <<"go", " ", "home">>,
      <<"home">>,
      <<"Home">>,
      <<" ">>,
      <<" ", "home", " ", "home", " ">>,
      <<"home", " ", "home", " ", "home">> }

\* kwid of the kw element at each position of the query file (unique).
KwIds == <<"K1", "K2", "K3">>

SeqsUpTo(S, n) == UNION { [1..k -> S] : k \in 0..n }

QueryFiles ==
    { [wellformed |-> FALSE, kws |-> <<>>] } \cup
    { [wellformed |-> TRUE,
       kws |-> [k \in 1..Len(t) |-> [kwid |-> KwIds[k], kwtext |-> t[k]]]] :
      t \in SeqsUpTo(KwTexts, MaxQueries) }

-----------------------------------------------------------------------------
(* State *)

NoError == [exc |-> "none", in |-> "none"]
NoFile == [exists |-> FALSE, content |-> <<>>]

Init ==
    /\ ctm_file \in SeqsUpTo(InputLines, MaxLines)
    /\ query_file \in QueryFiles
    /\ pc = "start"
    /\ error = NoError
    /\ index_df = <<>>
    /\ queries_df = <<>>
    /\ qi = 1
    /\ hits = <<>>
    /\ win = <<>>
    /\ hits_df = <<>>
    /\ out_ctm = NoFile
    /\ out_xml = NoFile

-----------------------------------------------------------------------------
(* parse_ctm *)

\* A line of at least 6 fields whose start_time, duration or confidence text
\* float() rejects.
BadNumber(parts) ==
    /\ Len(parts) >= 6
    /\ ~ (IsFloat(parts[3]) /\ IsFloat(parts[4]) /\ IsFloat(parts[6]))

WordOccurrence(parts) ==
    [file_id |-> parts[1], channel |-> parts[2],
     start_time |-> FloatTable[parts[3]], duration |-> FloatTable[parts[4]],
     word |-> parts[5], confidence |-> FloatTable[parts[6]]]

\* Variant of ParseLines with a slip: a line whose number float() rejects is
\* skipped like a short line instead of ending the load.
RECURSIVE ParseLines_SkipBadNumber(_, _, _)
ParseLines_SkipBadNumber(lines, k, index) ==
    IF k > Len(lines) THEN [raised |-> FALSE, index |-> index]
    ELSE IF Len(lines[k]) < 6 \/ BadNumber(lines[k])
    THEN ParseLines_SkipBadNumber(lines, k + 1, index)
    ELSE ParseLines_SkipBadNumber(lines, k + 1, Append(index, WordOccurrence(lines[k])))

\* The loop of parse_ctm from line k on: raised = TRUE as soon as a float()
\* fails, else the records of the lines of at least 6 fields, in file order.
RECURSIVE ParseLines(_, _, _)
ParseLines(lines, k, index) ==
    IF k > Len(lines) THEN [raised |-> FALSE, index |-> index]
    ELSE IF Len(lines[k]) < 6 THEN ParseLines(lines, k + 1, index)
    ELSE IF BadNumber(lines[k]) THEN [raised |-> TRUE, index |-> index]
    ELSE ParseLines(lines, k + 1, Append(index, WordOccurrence(lines[k])))

parse_ctm(lines) == ParseLines(lines, 1, <<>>)

ParseCtm ==
    /\ pc = "start"
    /\ LET r == parse_ctm(ctm_file) IN
       IF r.raised
       THEN /\ pc' = "failed"
            /\ error' = [exc |-> "ValueError", in |-> "parse_ctm"]
            /\ UNCHANGED index_df
       ELSE /\ pc' = "ctm_parsed"
            /\ index_df' = r.index
            /\ UNCHANGED error
    /\ UNCHANGED <<ctm_file, query_file, queries_df, qi, hits, win, hits_df,
                   out_ctm, out_xml>>

-----------------------------------------------------------------------------
(* parse_queries *)

IsSpace(chunk) == chunk = " "

RECURSIVE LStrip(_)
LStrip(text) ==
    IF text # <<>> /\ IsSpace(Head(text)) THEN LStrip(Tail(text)) ELSE text

RECURSIVE RStrip(_)
RStrip(text) ==
    IF text # <<>> /\ IsSpace(text[Len(text)])
    THEN RStrip(SubSeq(text, 1, Len(text) - 1))
    ELSE text

\* str.strip()
Strip(text) == RStrip(LStrip(text))

\* str.split(): the words between the runs of whitespace
Split(text) == SelectSeq(text, LAMBDA chunk : ~ IsSpace(chunk))

Query(kw) ==
    [kwid |-> kw.kwid, phrase |-> Strip(kw.kwtext), words |-> Split(Strip(kw.kwtext))]

parse_queries(file) == [k \in 1..Len(file.kws) |-> Query(file.kws[k])]

ParseQueries ==
    /\ pc = "ctm_parsed"
    /\ IF ~ query_file.wellformed
       THEN /\ pc' = "failed"
            /\ error' = [exc |-> "ParseError", in |-> "parse_queries"]
            /\ UNCHANGED queries_df
       ELSE /\ pc' = "search"
            /\ queries_df' = parse_queries(query_file)
            /\ UNCHANGED error
    /\ UNCHANGED <<ctm_file, query_file, index_df, qi, hits, win, hits_df,
                   out_ctm, out_xml>>

-----------------------------------------------------------------------------
(* perform_kws_search *)

\* The comparison of line 53: 0.5 s, in thousandths.
GapLimit == 500

RECURSIVE Sum(_)
Sum(s) == IF s = <<>> THEN 0 ELSE Head(s) + Sum(Tail(s))

Column(segment, name) == [k \in 1..Len(segment) |-> segment[k][name]]

\* Variant of Mean with a slip: the sum, not divided by the count.
Mean_SumOnly(s) == [num |-> Sum(s), den |-> 1]

\* Series.mean(): sum over count, kept as the exact fraction num/den.
Mean(s) == [num |-> Sum(s), den |-> Len(s)]

\* Series.diff().fillna(0): 0 first, then each value minus the one before it.
Diff(s) == [k \in 1..Len(s) |-> IF k = 1 THEN 0 ELSE s[k] - s[k - 1]]

\* Variant of TimeOk with a slip: time_diffs[:1], the filled first difference
\* alone, is compared.
TimeOk_FirstOnly(time_diffs) ==
    \A k \in 1..(IF Len(time_diffs) > 0 THEN 1 ELSE 0) : time_diffs[k] <= GapLimit

\* all(time_diffs[1:] <= 0.5): every difference but the first one.
TimeOk(time_diffs) == \A k \in 2..Len(time_diffs) : time_diffs[k] <= GapLimit

\* Variant of MakeHit with a slip: the duration of the last record is taken
\* for the duration of the span.
MakeHit_LastDuration(segment, query) ==
    LET first == segment[1]
        last == segment[Len(segment)]
    IN [kwid |-> query.kwid,
        file_id |-> first.file_id,
        channel |-> first.channel,
        start_time |-> first.start_time,
        duration |-> last.duration,
        score |-> Mean(Column(segment, "confidence")),
        decision |-> "YES"]

\* The dict of lines 59-67, from the values of lines 54-57.
MakeHit(segment, query) ==
    LET first == segment[1]
        last == segment[Len(segment)]
        start_time == first.start_time
        end_time == last.start_time + last.duration
    IN [kwid |-> query.kwid,
        file_id |-> first.file_id,
        channel |-> first.channel,
        start_time |-> start_time,
        duration |-> end_time - start_time,
        score |-> Mean(Column(segment, "confidence")),
        decision |-> "YES"]

\* The inner loop (line 47) of the query at position q, from offset i on.
\* acc = [exc, hits, win]: the exception raised ("none": none), the list hits
\* and its history.  An empty index_df has no columns, so segment['word']
\* raises KeyError; segment.iloc[0] of an empty segment raises IndexError.
RECURSIVE ScanFrom(_, _, _, _, _)
ScanFrom(index, query, q, i, acc) ==
    LET words == query.words
        num_words == Len(words)
    IN IF i >= Len(index) - num_words + 1 THEN acc
       ELSE LET segment == SubSeq(index, i + 1, i + num_words) IN
            IF Len(index) = 0 THEN [acc EXCEPT !.exc = "KeyError"]
            ELSE IF Column(segment, "word") # words
            THEN ScanFrom(index, query, q, i + 1, acc)
            ELSE IF ~ TimeOk(Diff(Column(segment, "start_time")))
            THEN ScanFrom(index, query, q, i + 1, acc)
            ELSE IF segment = <<>> THEN [acc EXCEPT !.exc = "IndexError"]
            ELSE ScanFrom(index, query, q, i + 1,
                          [acc EXCEPT !.hits = Append(@, MakeHit(segment, query)),
                                      !.win = Append(@, <<q, i>>)])

\* One iteration of the outer loop (line 42).
ScanQuery(index, queries, q, acc) == ScanFrom(index, queries[q], q, 0, acc)

\* The outer loop from the query at position q on; an exception ends it.
RECURSIVE ScanQueries(_, _, _, _)
ScanQueries(index, queries, q, acc) ==
    IF q > Len(queries) \/ acc.exc # "none" THEN acc
    ELSE ScanQueries(index, queries, q + 1, ScanQuery(index, queries, q, acc))

\* A whole call: what it raised and the hits (with their history) it had
\* collected by then.
perform_kws_search(index, queries) ==
    ScanQueries(index, queries, 1, [exc |-> "none", hits |-> <<>>, win |-> <<>>])

SearchQuery ==
    /\ pc = "search"
    /\ qi <= Len(queries_df)
    /\ LET r == ScanQuery(index_df, queries_df, qi,
                          [exc |-> "none", hits |-> hits, win |-> win])
       IN /\ hits' = r.hits
          /\ win' = r.win
          /\ IF r.exc # "none"
             THEN /\ pc' = "failed"
                  /\ error' = [exc |-> r.exc, in |-> "perform_kws_search"]
                  /\ UNCHANGED qi
             ELSE /\ qi' = qi + 1
                  /\ UNCHANGED <<pc, error>>
    /\ UNCHANGED <<ctm_file, query_file, index_df, queries_df, hits_df,
                   out_ctm, out_xml>>

SearchReturn ==
    /\ pc = "search"
    /\ qi > Len(queries_df)
    /\ hits_df' = hits
    /\ pc' = "searched"
    /\ UNCHANGED <<ctm_file, query_file, error, index_df, queries_df, qi, hits,
                   win, out_ctm, out_xml>>

-----------------------------------------------------------------------------
(* save_hits_to_ctm *)

\* x / y rounded to the nearest integer (halves away from zero), y > 0.
RoundDiv(x, y) ==
    IF x >= 0 THEN (2 * x + y) \div (2 * y) ELSE - ((2 * (- x) + y) \div (2 * y))

\* f"{v:.2f}" of a value in thousandths: its count of hundredths.
Fmt2(v) == [places |-> 2, digits |-> RoundDiv(v, 10)]

\* f"{score:.6f}" of a fraction of thousandths: its count of millionths.
Fmt6(score) == [places |-> 6, digits |-> RoundDiv(score.num * 1000, score.den)]

CtmLine(hit) ==
    <<hit.file_id, hit.channel, Fmt2(hit.start_time), Fmt2(hit.duration),
      hit.kwid, Fmt6(hit.score)>>

\* Variant of CtmLines with a slip: the rows are written last to first.
CtmLines_Reversed(df) == [k \in 1..Len(df) |-> CtmLine(df[Len(df) + 1 - k])]

\* The lines written, one per row of hits_df in its order.
CtmLines(df) == [k \in 1..Len(df) |-> CtmLine(df[k])]

SaveCtm ==
    /\ pc = "searched"
    /\ out_ctm' = [exists |-> TRUE, content |-> CtmLines(hits_df)]
    /\ pc' = "ctm_saved"
    /\ UNCHANGED <<ctm_file, query_file, error, index_df, queries_df, qi, hits,
                   win, hits_df, out_xml>>

-----------------------------------------------------------------------------
(* save_hits_to_xml *)

\* str(x) of a float: the shortest text that reads back as x.
Str(x) == [repr |-> x]

KwElement(hit) ==
    [file |-> hit.file_id, channel |-> hit.channel,
     tbeg |-> Str(hit.start_time), dur |-> Str(hit.duration),
     score |-> Str(hit.score), decision |-> hit.decision]

\* groupby("kwid"): one group per kwid that has a row, in sorted kwid order
\* (the order of KwIds), the rows of a group in their order in hits_df.
GroupKeys(df) ==
    SelectSeq(KwIds, LAMBDA kwid : \E k \in 1..Len(df) : df[k].kwid = kwid)

Group(df, kwid) == SelectSeq(df, LAMBDA hit : hit.kwid = kwid)

DetectedKwlist(df, kwid) ==
    [kwid |-> kwid, oov_count |-> "0", search_time |-> "0.0",
     kw |-> [k \in 1..Len(Group(df, kwid)) |-> KwElement(Group(df, kwid)[k])]]

KwsList(df) ==
    [k \in 1..Len(GroupKeys(df)) |-> DetectedKwlist(df, GroupKeys(df)[k])]

\* A hits_df built from no row has no column: groupby("kwid") raises KeyError
\* before anything is written.
SaveXml ==
    /\ pc = "ctm_saved"
    /\ IF hits_df = <<>>
       THEN /\ pc' = "failed"
            /\ error' = [exc |-> "KeyError", in |-> "save_hits_to_xml"]
            /\ UNCHANGED out_xml
       ELSE /\ pc' = "done"
            /\ out_xml' = [exists |-> TRUE, content |-> KwsList(hits_df)]
            /\ UNCHANGED error
    /\ UNCHANGED <<ctm_file, query_file, index_df, queries_df, qi, hits, win,
                   hits_df, out_ctm>>

-----------------------------------------------------------------------------
(* main *)

Next ==
    \/ ParseCtm
    \/ ParseQueries
    \/ SearchQuery
    \/ SearchReturn
    \/ SaveCtm
    \/ SaveXml

Spec == Init /\ [][Next]_vars

-----------------------------------------------------------------------------
(* Vocabulary of the properties *)

N == Len(index_df)
WordsOf(q) == queries_df[q].words
LenOf(q) == Len(WordsOf(q))
Queries == 1..Len(queries_df)
Emitted == 1..Len(hits)

LoadErrors == {"parse_ctm", "parse_queries"}

\* Both loads have returned.
Loaded == pc \notin {"start", "ctm_parsed"} /\ error.in \notin LoadErrors

\* perform_kws_search has returned.
Returned == Loaded /\ pc # "search" /\ error.in # "perform_kws_search"

\* perform_kws_search has ended: it returned, or it raised.
SearchOver == Loaded /\ pc # "search"

\* The outer loop has reached the query at position q.
Reached(q) == Loaded /\ (qi > q \/ (qi = q /\ pc = "failed"))

\* The window of query q at offset i qualifies, as section 4.3 states it.
Qualifies(q, i) ==
    /\ \A k \in 1..LenOf(q) : index_df[i + k].word = WordsOf(q)[k]
    /\ \A k \in 1..(LenOf(q) - 1) :
          index_df[i + k + 1].start_time - index_df[i + k].start_time <= GapLimit

HitsAt(q, i) == {k \in Emitted : win[k] = <<q, i>>}
HitsOfKwid(kwid) == {k \in Emitted : hits[k].kwid = kwid}

RECURSIVE ConfidenceSum(_, _)
ConfidenceSum(i, len) ==
    IF len = 0 THEN 0 ELSE index_df[i + len].confidence + ConfidenceSum(i, len - 1)

WindowConfidences(i, len) == {index_df[i + k].confidence : k \in 1..len}

\* The history names, for every emitted hit, a window inside the reference.
HistoryOk ==
    /\ Len(win) = Len(hits)
    /\ \A k \in Emitted :
          /\ win[k][1] \in Queries
          /\ LenOf(win[k][1]) >= 1
          /\ win[k][2] \in 0..(N - LenOf(win[k][1]))

\* Supporting property (no claim's formula): whenever perform_kws_search
\* returns, its hits are exactly the qualifying windows, one hit each.
MatchingCorrectOnReturn ==
    Returned =>
        /\ HistoryOk
        /\ \A q \in Queries : \A i \in 0..(N - LenOf(q)) :
              Cardinality(HitsAt(q, i)) = IF Qualifies(q, i) THEN 1 ELSE 0

-----------------------------------------------------------------------------
(* C1 *)

\* C1: once perform_kws_search has ended, for every query of L >= 1 words and
\* every start offset i in 0..N-L there is exactly one emitted Hit of that
\* window if the window qualifies and none if it does not, and every emitted
\* Hit is the Hit of such a window.
C1_OneHitPerQualifyingWindow ==
    SearchOver =>
        /\ HistoryOk
        /\ \A q \in Queries : LenOf(q) >= 1 =>
              \A i \in 0..(N - LenOf(q)) :
                 Cardinality(HitsAt(q, i)) = IF Qualifies(q, i) THEN 1 ELSE 0

-----------------------------------------------------------------------------
(* C2 *)

ScenarioA_index ==
    << [file_id |-> "f1", channel |-> "1", start_time |-> 0, duration |-> 200,
        word |-> "go", confidence |-> 900],
       [file_id |-> "f1", channel |-> "1", start_time |-> 300, duration |-> 200,
        word |-> "home", confidence |-> 800] >>

ScenarioA_run ==
    /\ Returned
    /\ index_df = ScenarioA_index
    /\ Len(queries_df) = 1
    /\ queries_df[1].kwid = "K1"
    /\ queries_df[1].words = <<"go", "home">>

\* C2: every emitted Hit starts where the first record of its window starts,
\* ends where the last record ends, has as score the mean of the confidences
\* of the L records of the window, the kwid of its query, the file_id and
\* channel of the first record, and decision "YES"; Scenario A gives one Hit
\* with start 0.0, duration 0.5 and score 0.85.
C2_HitFields ==
    /\ \A k \in Emitted :
          LET q == win[k][1]
              i == win[k][2]
              len == LenOf(q)
              h == hits[k]
          IN /\ h.start_time = index_df[i + 1].start_time
             /\ h.start_time + h.duration =
                   index_df[i + len].start_time + index_df[i + len].duration
             /\ h.score.den > 0
             /\ h.score.num * len = ConfidenceSum(i, len) * h.score.den
             /\ h.kwid = queries_df[q].kwid
             /\ h.file_id = index_df[i + 1].file_id
             /\ h.channel = index_df[i + 1].channel
             /\ h.decision = "YES"
    /\ ScenarioA_run =>
          /\ Len(hits_df) = 1
          /\ hits_df[1].start_time = 0
          /\ hits_df[1].duration = 500
          /\ hits_df[1].score.num = 850 * hits_df[1].score.den
          /\ hits_df[1].decision = "YES"

\* A Hit of a window of two records that lie in different files.
C2_Witness ==
    \E k \in Emitted :
        /\ LenOf(win[k][1]) = 2
        /\ index_df[win[k][2] + 1].file_id # index_df[win[k][2] + 2].file_id
        /\ index_df[win[k][2] + 1].confidence # index_df[win[k][2] + 2].confidence

-----------------------------------------------------------------------------
(* C3 *)

\* C3: every emitted Hit has duration >= 0 (the records of the reference all
\* have non-negative start_time and duration, in any order).
C3_DurationNonNegative ==
    \A k \in Emitted : hits[k].duration >= 0

-----------------------------------------------------------------------------
(* C4 *)

\* C4: a query without words that the outer loop has reached makes
\* perform_kws_search raise nothing, has no Hit, and the loop goes on to the
\* next query.
C4_EmptyQueryIsNoError ==
    \A q \in Queries :
        (LenOf(q) = 0 /\ Reached(q)) =>
            /\ error.in # "perform_kws_search"
            /\ HitsOfKwid(queries_df[q].kwid) = {}
            /\ qi > q

-----------------------------------------------------------------------------
(* C5 *)

CtmLinesOf(kwid) ==
    {k \in 1..Len(out_ctm.content) : out_ctm.content[k][5] = kwid}
XmlGroupsOf(kwid) ==
    {k \in 1..Len(out_xml.content) : out_xml.content[k].kwid = kwid}

\* C5: once the loads have succeeded and the match has returned, the writers
\* raise nothing, and the finished run has written both files, with no CTM
\* line and no detected_kwlist group for a kwid without Hit.
C5_NoMatchIsNoError ==
    Returned =>
        /\ pc # "failed"
        /\ pc = "done" =>
              /\ out_ctm.exists
              /\ out_xml.exists
              /\ \A q \in Queries :
                    HitsOfKwid(queries_df[q].kwid) = {} =>
                        /\ CtmLinesOf(queries_df[q].kwid) = {}
                        /\ XmlGroupsOf(queries_df[q].kwid) = {}

-----------------------------------------------------------------------------
(* C6 *)

HasBadNumber(lines) == \E k \in 1..Len(lines) : BadNumber(lines[k])
LoadFails == HasBadNumber(ctm_file) \/ ~ query_file.wellformed

\* C6: matching runs only after both loads have returned their values, an
\* output file exists only after matching has returned, and a run whose
\* reference has an unparsable number in a line of at least 6 fields, or whose
\* query XML is malformed, ends failed in the load with neither file written.
C6_LoadsThenMatchThenWrites ==
    /\ (pc = "search" \/ hits # <<>> \/ qi > 1) =>
          /\ ~ LoadFails
          /\ Len(index_df) = Cardinality({k \in 1..Len(ctm_file) : Len(ctm_file[k]) >= 6})
          /\ Len(queries_df) = Len(query_file.kws)
    /\ (out_ctm.exists \/ out_xml.exists) =>
          /\ Returned
          /\ qi > Len(queries_df)
          /\ hits_df = hits
    /\ out_xml.exists => out_ctm.exists
    /\ LoadFails =>
          /\ ~ out_ctm.exists
          /\ ~ out_xml.exists
          /\ pc \in {"start", "ctm_parsed", "failed"}
          /\ pc = "failed" => error.in \in LoadErrors

\* A run that the unparsable number of its third line ended, two records read.
C6_Witness ==
    /\ pc = "failed"
    /\ error = [exc |-> "ValueError", in |-> "parse_ctm"]
    /\ Len(ctm_file) = 3
    /\ BadNumber(ctm_file[3])
    /\ ~ out_ctm.exists
    /\ ~ out_xml.exists

-----------------------------------------------------------------------------
(* C7 *)

\* The reference regenerated with the gap between its records p and p + 1
\* (1-based) widened by d: either every record after p starts d later, or the
\* record p + 1 alone does.
ShiftAfter(index, p, d) ==
    [k \in 1..Len(index) |->
        IF k > p THEN [index[k] EXCEPT !.start_time = @ + d] ELSE index[k]]
MoveNext(index, p, d) ==
    [k \in 1..Len(index) |->
        IF k = p + 1 THEN [index[k] EXCEPT !.start_time = @ + d] ELSE index[k]]

\* The regenerated references whose gap after record p is beyond 0.5 s.
Widened(index, p) ==
    LET gap == index[p + 1].start_time - index[p].start_time IN
    UNION { {ShiftAfter(index, p, to - gap), MoveNext(index, p, to - gap)} :
            to \in {GapLimit + 1, GapLimit + 1000} }

\* The windows (query position, start offset) of the Hits of a whole call.
WindowsOf(index) ==
    LET r == perform_kws_search(index, queries_df)
    IN {r.win[k] : k \in 1..Len(r.win)}

\* The window w holds both the record p and the record p + 1.
HoldsGap(w, p) == w[2] + 1 <= p /\ p + 1 <= w[2] + LenOf(w[1])

\* C7 as stated: for every Hit of a returned call and every interior gap of
\* its window, the call on the reference regenerated with that gap beyond
\* 0.5 s has no Hit of that window and has a Hit of every other window that
\* had one.
C7_RemovesThatHitOnly ==
    pc = "searched" =>
        \A k \in Emitted : \A j \in 1..(LenOf(win[k][1]) - 1) :
            \A ref \in Widened(index_df, win[k][2] + j) :
                /\ win[k] \notin WindowsOf(ref)
                /\ \A m \in Emitted :
                      win[m] # win[k] => win[m] \in WindowsOf(ref)

\* C7 amended: the regenerated call has no Hit of any window, of any query,
\* that holds both records of the widened gap (the window itself is one), and
\* has a Hit of every other window that had one.
C7_RemovesTheHitsOnThatGap ==
    pc = "searched" =>
        \A k \in Emitted : \A j \in 1..(LenOf(win[k][1]) - 1) :
            \A ref \in Widened(index_df, win[k][2] + j) :
                /\ win[k] \notin WindowsOf(ref)
                /\ \A m \in Emitted :
                      win[m] \in WindowsOf(ref) <=> ~ HoldsGap(win[m], win[k][2] + j)

\* A returned call with a Hit of a window of two records, a Hit of another
\* window on the same two records, and a Hit of a window that does not hold
\* both.
C7_Witness ==
    /\ pc = "searched"
    /\ \E k, m, n \in Emitted :
          /\ LenOf(win[k][1]) = 2
          /\ m # k
          /\ HoldsGap(win[m], win[k][2] + 1)
          /\ ~ HoldsGap(win[n], win[k][2] + 1)

-----------------------------------------------------------------------------
(* C8 *)

-----------------------------------------------------------------------------
(* C9 *)

\* C9: once perform_kws_search has ended, the number of Hits of every query
\* of one word is the number of records of the reference whose word is that
\* token.
C9_SingleTokenCount ==
    SearchOver =>
        \A q \in Queries : LenOf(q) = 1 =>
            Cardinality(HitsOfKwid(queries_df[q].kwid)) =
                Cardinality({j \in 1..N : index_df[j].word = WordsOf(q)[1]})

-----------------------------------------------------------------------------
(* C10 *)

\* text.digits is the fraction num/den, scaled by scale, rounded to the
\* nearest integer.
Rounds(text, num, den, scale) ==
    /\ 2 * (text.digits * den - num * scale) <= den
    /\ 2 * (num * scale - text.digits * den) <= den

\* The CTM line is the line of the Hit.
LineOf(line, hit) ==
    /\ Len(line) = 6
    /\ line[1] = hit.file_id
    /\ line[2] = hit.channel
    /\ line[3].places = 2 /\ 2 * (line[3].digits * 10 - hit.start_time) \in -10..10
    /\ line[4].places = 2 /\ 2 * (line[4].digits * 10 - hit.duration) \in -10..10
    /\ line[5] = hit.kwid
    /\ line[6].places = 6 /\ Rounds(line[6], hit.score.num, hit.score.den, 1000)

\* C10: the returned hit list is in the order of the query positions and,
\* within a query, of strictly ascending start offsets, and the CTM file holds
\* one line per Hit, the k-th line being the line of the k-th Hit.
C10_OrderKept ==
    Returned =>
        /\ Len(win) = Len(hits_df)
        /\ \A k, m \in 1..Len(hits_df) :
              k < m => \/ win[k][1] < win[m][1]
                       \/ win[k][1] = win[m][1] /\ win[k][2] < win[m][2]
        /\ \A k \in 1..Len(hits_df) :
              hits_df[k].kwid = queries_df[win[k][1]].kwid
        /\ out_ctm.exists =>
              /\ Len(out_ctm.content) = Len(hits_df)
              /\ \A k \in 1..Len(hits_df) : LineOf(out_ctm.content[k], hits_df[k])

\* A written CTM file of three lines: two Hits of one query, at two offsets,
\* then a Hit of the next query.
C10_Witness ==
    /\ out_ctm.exists
    /\ Len(out_ctm.content) = 3
    /\ win[1][1] = win[2][1]
    /\ win[2][1] < win[3][1]
    /\ hits_df[1] # hits_df[2]

====
